---- MODULE Spec2Model ----
(***************************************************************************)
(* A model of the task tracker of src/my_module.py (Task, TaskManager)     *)
(* and of its command-line shell, src/project.py.                          *)
(*                                                                         *)
(* Python values are written as follows.                                   *)
(*   str            a TLA+ string, compared by code point (StrLt)          *)
(*   None           the string None, which no input set contains           *)
(*   list           a sequence                                             *)
(*   Task object    its __dict__: a record whose fields are the attributes *)
(*                  the object has; _iter_index is a field only once       *)
(*                  __iter__ has run on the object                         *)
(*   an exception   the name of its class in the field "raised" of a call  *)
(***************************************************************************)
EXTENDS Integers, Sequences, FiniteSets, TLC

VARIABLES
    tasks,   \* TaskManager.tasks: the manager's list of Task objects
    fs,      \* the files on disk: the path of each file -> the JSON array in it
    today,   \* the calendar day datetime.now() falls on, as an index of Days
    pc,      \* where the shell of project.py is: "lib" when no shell runs
    last     \* the last call made: operation, name argument, exception, result

vars == <<tasks, fs, today, pc, last>>

-----------------------------------------------------------------------------
(* Bounds of the model.                                                    *)

MaxTasks == 3      \* tasks in the list under SpecAdd and Spec
MaxStored == 2     \* tasks in the list under SpecStore
MaxOperands == 2   \* tasks in the list under SpecMerge
MaxShell == 2      \* tasks in the list under SpecShell

-----------------------------------------------------------------------------
(* Python strings.                                                         *)

None == "<None>"
NotImplemented == "<NotImplemented>"

Digits == "0123456789"
Upper == "ABCDEFGHIJKLMNOPQRSTUVWXYZ"
Lower == "abcdefghijklmnopqrstuvwxyz"

Char(s, i) == SubSeq(s, i, i)

IndexIn(c, alphabet) ==
    IF \E i \in 1..Len(alphabet) : Char(alphabet, i) = c
    THEN CHOOSE i \in 1..Len(alphabet) : Char(alphabet, i) = c
    ELSE 0

\* ord(c) for the characters the inputs are written in.
Ord(c) ==
    CASE IndexIn(c, Digits) > 0 -> 47 + IndexIn(c, Digits)
      [] IndexIn(c, Upper) > 0 -> 64 + IndexIn(c, Upper)
      [] IndexIn(c, Lower) > 0 -> 96 + IndexIn(c, Lower)
      [] c = " " -> 32
      [] c = "&" -> 38
      [] c = "'" -> 39
      [] c = "," -> 44
      [] c = "-" -> 45
      [] c = "." -> 46
      [] c = "<" -> 60
      [] c = ">" -> 62

Min(a, b) == IF a < b THEN a ELSE b

\* a < b on str: the first differing character decides, a proper prefix is less.
StrLt(a, b) ==
    LET n == Min(Len(a), Len(b))
        diff == {i \in 1..n : Char(a, i) # Char(b, i)}
    IN  IF diff = {}
        THEN Len(a) < Len(b)
        ELSE LET i == CHOOSE j \in diff : \A k \in diff : j <= k
             IN  Ord(Char(a, i)) < Ord(Char(b, i))

LowerChar(c) ==
    IF IndexIn(c, Upper) > 0 THEN Char(Lower, IndexIn(c, Upper)) ELSE c

RECURSIVE StrLower(_)
\* str.lower()
StrLower(s) ==
    IF Len(s) = 0 THEN ""
    ELSE LowerChar(Char(s, 1)) \o StrLower(SubSeq(s, 2, Len(s)))

\* needle in hay
StrIn(needle, hay) ==
    \E i \in 1..(Len(hay) - Len(needle) + 1) :
        SubSeq(hay, i, i + Len(needle) - 1) = needle

\* not s.strip(): s is empty or whitespace only
IsBlank(s) == \A i \in 1..Len(s) : Char(s, i) = " "

RECURSIVE StrStrip(_)
\* s.strip(), the white space being blanks
StrStrip(s) ==
    IF Len(s) = 0 THEN ""
    ELSE IF Char(s, 1) = " " THEN StrStrip(SubSeq(s, 2, Len(s)))
    ELSE IF Char(s, Len(s)) = " " THEN StrStrip(SubSeq(s, 1, Len(s) - 1))
    ELSE s

RECURSIVE StrSplit(_, _)
\* s.split(sep), sep one character
StrSplit(s, sep) ==
    LET at == {i \in 1..Len(s) : Char(s, i) = sep}
    IN  IF at = {} THEN <<s>>
        ELSE LET i == CHOOSE j \in at : \A k \in at : j <= k
             IN  <<SubSeq(s, 1, i - 1)>> \o StrSplit(SubSeq(s, i + 1, Len(s)), sep)

-----------------------------------------------------------------------------
(* Task.                                                                   *)

PRIORITY_LEVELS == [low |-> 1, medium |-> 2, high |-> 3]

\* The days datetime.now() can fall on, in calendar order.
Days == <<"2024-03-09", "2024-03-10">>

\* datetime.now().strftime("%Y-%m-%d")
NowStr(day) == Days[day]

\* Task.__init__. The argument dependencies=None is passed as <<>>: both are
\* falsy and line 37 stores a fresh empty list for either.
TaskInit(name, priority, due_date, category, dependencies, completed, day) ==
    [name |-> name,
     completed |-> completed,
     priority |-> priority,
     due_date |-> IF due_date # None /\ due_date # "" THEN due_date ELSE NowStr(day),
     category |-> category,
     dependencies |-> IF dependencies # <<>> THEN dependencies ELSE <<>>]

\* self.PRIORITY_LEVELS[x.priority] raises KeyError
LtRaises(self, other) ==
    \/ self.priority \notin DOMAIN PRIORITY_LEVELS
    \/ other.priority \notin DOMAIN PRIORITY_LEVELS

\* Task.__lt__ with the ranks compared the other way round
LtDescending(self, other) ==
    IF PRIORITY_LEVELS[self.priority] = PRIORITY_LEVELS[other.priority]
    THEN StrLt(self.due_date, other.due_date)
    ELSE PRIORITY_LEVELS[self.priority] > PRIORITY_LEVELS[other.priority]

\* Task.__lt__, where it does not raise
Lt(self, other) ==
    IF PRIORITY_LEVELS[self.priority] = PRIORITY_LEVELS[other.priority]
    THEN StrLt(self.due_date, other.due_date)
    ELSE PRIORITY_LEVELS[self.priority] < PRIORITY_LEVELS[other.priority]

\* whether __iter__ has run on the object: it has the attribute _iter_index
HasCursor(task) == "_iter_index" \in DOMAIN task

\* the object with attribute _iter_index set to index
WithCursor(task, index) ==
    [name |-> task.name, completed |-> task.completed, priority |-> task.priority,
     due_date |-> task.due_date, category |-> task.category,
     dependencies |-> task.dependencies, _iter_index |-> index]

\* the object with attribute completed set to TRUE
Completed(task) ==
    IF HasCursor(task)
    THEN [WithCursor(task, task._iter_index) EXCEPT !.completed = TRUE]
    ELSE [task EXCEPT !.completed = TRUE]

\* validate_task's test of the positional arguments after self: it raises
\* ValueError when there is none or the first is blank
ValidateRaises(args) == args = <<>> \/ IsBlank(args[1])

\* Task.mark_completed as decorated: the call task.mark_completed() reaches
\* validate_task's wrapper with no argument after self
MarkCompleted(task) ==
    IF ValidateRaises(<<>>)
    THEN [task |-> task, raised |-> "ValueError", ret |-> None]
    ELSE [task |-> Completed(task), raised |-> "None",
          ret |-> "Task '" \o task.name \o "' marked as completed."]

Range(seq) == {seq[i] : i \in 1..Len(seq)}

\* the lists list(set) can return: the members of S once each, in any order
ListsOf(S) ==
    {seq \in [1..Cardinality(S) -> S] : Range(seq) = S}

\* the dependencies joined end to end instead of united
ConcatenatedDependencies(self, other) == {self.dependencies \o other.dependencies}

\* list(set(self.dependencies) | set(other.dependencies)): the lists it can be
CombinedDependencies(self, other) ==
    ListsOf(Range(self.dependencies) \cup Range(other.dependencies))

\* Task.__add__: other is a Python value with its type; combined is the list
\* that list(set) returned
TaskAdd(self, other, combined, day) ==
    IF other.type = "Task"
    THEN TaskInit(self.name \o " & " \o other.value.name, "medium", None, None,
                  combined, FALSE, day)
    ELSE NotImplemented

-----------------------------------------------------------------------------
(* datetime.strptime(s, "%Y-%m-%d"): four digits, a month and a day of one  *)
(* or two digits, and then a date the calendar has.                        *)

Num(s) ==
    LET val[i \in 0..Len(s)] ==
            IF i = 0 THEN 0 ELSE 10 * val[i - 1] + (IndexIn(Char(s, i), Digits) - 1)
    IN  val[Len(s)]

AllDigits(s) == \A i \in 1..Len(s) : IndexIn(Char(s, i), Digits) > 0

IsLeap(y) == (y % 4 = 0 /\ y % 100 # 0) \/ y % 400 = 0

DaysIn(y, m) ==
    IF m = 2 THEN (IF IsLeap(y) THEN 29 ELSE 28)
    ELSE IF m \in {4, 6, 9, 11} THEN 30 ELSE 31

YearPart(s) == SubSeq(s, 1, 4)
MonthLen(s) == IF Char(s, 7) = "-" THEN 1 ELSE 2
MonthPart(s) == SubSeq(s, 6, 5 + MonthLen(s))
DayPart(s) ==
    LET d == SubSeq(s, 7 + MonthLen(s), Len(s))
    IN  IF Len(d) = 2 /\ Char(d, 1) = " " THEN Char(d, 2) ELSE d

\* a month or day field: digits, one or two of them, not zero
IsField(f, max) == Len(f) \in {1, 2} /\ AllDigits(f) /\ Num(f) \in 1..max

\* strptime raises ValueError
ParseRaises(s) ==
    \/ Len(s) < 8
    \/ ~AllDigits(YearPart(s))
    \/ Char(s, 5) # "-" \/ Char(s, 6 + MonthLen(s)) # "-"
    \/ ~IsField(MonthPart(s), 12)
    \/ ~IsField(DayPart(s), 31)
    \/ Num(YearPart(s)) < 1
    \/ Num(DayPart(s)) > DaysIn(Num(YearPart(s)), Num(MonthPart(s)))

\* the parsed date as one number that orders dates
ParseDate(s) ==
    Num(YearPart(s)) * 10000 + Num(MonthPart(s)) * 100 + Num(DayPart(s))

\* Task.is_overdue, where strptime does not raise: midnight of the due date is
\* strictly before now, and now is time microseconds after midnight of day
\* (datetime compares the date first, then the time of day)
IsOverdue(task, day, time) ==
    /\ \/ ParseDate(task.due_date) < ParseDate(NowStr(day))
       \/ ParseDate(task.due_date) = ParseDate(NowStr(day)) /\ 0 < time
    /\ ~task.completed

-----------------------------------------------------------------------------
(* list.sort(key=...) as CPython runs it on a list of fewer than 64 items: *)
(* the keys are computed, one run is counted from the front (count_run)    *)
(* and reversed if it descends, and each later item is placed by binary    *)
(* insertion (binarysort); the items move with their keys. A comparison    *)
(* that raises ends the sort with the items where they are.                *)

\* the key of an item: the item itself when key is None, and for the default
\* key of sort_tasks, lambda task: task.priority, the str of its priority
KeyOf(task, key) == IF key = None THEN task ELSE [str |-> task.priority]

\* a < b on two keys raises: both are Task objects and Task.__lt__ raises
KeyLtRaises(a, b) == IF "str" \in DOMAIN a THEN FALSE ELSE LtRaises(a, b)

\* a < b on two keys: str.__lt__ or Task.__lt__
KeyLt(a, b) == IF "str" \in DOMAIN a THEN StrLt(a.str, b.str) ELSE Lt(a, b)

RECURSIVE Reverse(_)
Reverse(s) == IF Len(s) = 0 THEN <<>> ELSE Reverse(Tail(s)) \o <<Head(s)>>

\* count_run: the length of the run at the front of s and whether it descends;
\* n = -1 if a comparison raises
CountRun(s) ==
    IF Len(s) < 2 THEN [n |-> Len(s), descending |-> FALSE]
    ELSE IF KeyLtRaises(s[2].key, s[1].key) THEN [n |-> -1, descending |-> FALSE]
    ELSE LET descending == KeyLt(s[2].key, s[1].key)
             RunEnd[i \in 3..(Len(s) + 1)] ==
                 IF i > Len(s) THEN Len(s)
                 ELSE IF KeyLtRaises(s[i].key, s[i - 1].key) THEN -1
                 ELSE IF KeyLt(s[i].key, s[i - 1].key) = descending THEN RunEnd[i + 1]
                 ELSE i - 1
         IN  [n |-> RunEnd[3], descending |-> descending]

\* binarysort's search for the pivot s[start] among the sorted s[1..start-1]:
\* how many items stay to its left, or -1 if a comparison raises
InsertAt(s, start) ==
    LET pivot == s[start].key
        Search[l \in 0..start, r \in 0..start] ==
            LET p == l + ((r - l) \div 2)
            IN  IF KeyLtRaises(pivot, s[p + 1].key) THEN -1
                ELSE LET l2 == IF KeyLt(pivot, s[p + 1].key) THEN l ELSE p + 1
                         r2 == IF KeyLt(pivot, s[p + 1].key) THEN p ELSE r
                     IN  IF l2 < r2 THEN Search[l2, r2] ELSE l2
    IN  Search[0, start - 1]

\* binarysort: s[1..n] is sorted and the items after it are inserted in turn
BinarySort(s, n) ==
    LET Placed[k \in n..Len(s)] ==
            IF k = n THEN [list |-> s, raised |-> FALSE]
            ELSE LET prev == Placed[k - 1]
                     at == InsertAt(prev.list, k)
                 IN  IF prev.raised THEN prev
                     ELSE IF at < 0 THEN [list |-> prev.list, raised |-> TRUE]
                     ELSE [list |-> SubSeq(prev.list, 1, at) \o <<prev.list[k]>>
                                        \o SubSeq(prev.list, at + 1, k - 1)
                                        \o SubSeq(prev.list, k + 1, Len(s)),
                           raised |-> FALSE]
    IN  Placed[Len(s)]

\* list.sort(key=key): the list it leaves and whether a comparison raised
ListSort(list, key) ==
    LET s == [i \in 1..Len(list) |-> [key |-> KeyOf(list[i], key), value |-> list[i]]]
        run == CountRun(s)
        done == IF Len(s) < 2 THEN [list |-> s, raised |-> FALSE]
                ELSE IF run.n < 0 THEN [list |-> s, raised |-> TRUE]
                ELSE BinarySort(IF run.descending
                                THEN Reverse(SubSeq(s, 1, run.n))
                                         \o SubSeq(s, run.n + 1, Len(s))
                                ELSE s,
                                run.n)
    IN  [list |-> [i \in 1..Len(list) |-> done.list[i].value], raised |-> done.raised]

\* sorted(list): a sorted copy, and whether a comparison raised
Sorted(list) == ListSort(list, None)

-----------------------------------------------------------------------------
(* TaskManager.                                                            *)

\* what a call leaves in last
Call(op, name, raised, ret) ==
    [op |-> op, name |-> name, raised |-> raised, ret |-> ret]

\* add_task without its call of sort
AppendUnsorted(list, task) == [list |-> Append(list, task), raised |-> FALSE]

\* the list after self.tasks.append(task); self.tasks.sort()
AppendSorted(list, task) == ListSort(Append(list, task), None)

\* TaskManager.add_task
add_task(name, priority, due_date, category, dependencies) ==
    LET task == TaskInit(name, priority, due_date, category, dependencies, FALSE, today)
        sorted == AppendSorted(tasks, task)
    IN  /\ tasks' = sorted.list
        /\ last' = [op |-> "add_task", name |-> name, priority |-> priority,
                    raised |-> IF sorted.raised THEN "KeyError" ELSE "None",
                    ret |-> IF sorted.raised THEN None
                            ELSE "Task '" \o name \o "' added."]
        /\ UNCHANGED <<fs, today>>

\* the index of the first task named name, 0 if there is none
FirstNamed(list, name) ==
    IF \E i \in 1..Len(list) : list[i].name = name
    THEN CHOOSE i \in 1..Len(list) :
             list[i].name = name /\ \A j \in 1..(i - 1) : list[j].name # name
    ELSE 0

\* a removal that drops the last task instead of the i-th
RemoveLast(list, i) == SubSeq(list, 1, Len(list) - 1)

RemoveAt(list, i) == SubSeq(list, 1, i - 1) \o SubSeq(list, i + 1, Len(list))

\* TaskManager.remove_task
remove_task(name) ==
    LET i == FirstNamed(tasks, name)
    IN  /\ tasks' = IF i > 0 THEN RemoveAt(tasks, i) ELSE tasks
        /\ last' = Call("remove_task", name, "None",
                        IF i > 0 THEN "Task '" \o name \o "' removed."
                        ELSE "Task '" \o name \o "' not found.")
        /\ UNCHANGED <<fs, today>>

\* TaskManager.mark_task_complete
mark_task_complete(name) ==
    LET i == FirstNamed(tasks, name)
    IN  /\ tasks' = IF i > 0 THEN [tasks EXCEPT ![i] = Completed(tasks[i])] ELSE tasks
        /\ last' = Call("mark_task_complete", name, "None",
                        IF i > 0 THEN "Task '" \o name \o "' marked complete."
                        ELSE "Task '" \o name \o "' not found.")
        /\ UNCHANGED <<fs, today>>

\* the tasks search_tasks returns
SearchResult(list, keyword) ==
    SelectSeq(list, LAMBDA task : StrIn(StrLower(keyword), StrLower(task.name)))

\* TaskManager.search_tasks
search_tasks(keyword) ==
    /\ last' = Call("search_tasks", keyword, "None", SearchResult(tasks, keyword))
    /\ UNCHANGED <<tasks, fs, today>>

\* the list self.tasks.sort(key=key) leaves, key being the default
SortedByKey(list) == ListSort(list, "priority").list

\* TaskManager.sort_tasks()
sort_tasks ==
    /\ tasks' = SortedByKey(tasks)
    /\ last' = Call("sort_tasks", "", "None", None)
    /\ UNCHANGED <<fs, today>>

\* TaskManager.list_tasks
list_tasks(filter_category) ==
    LET shown == IF filter_category # None /\ filter_category # ""
                 THEN SelectSeq(tasks, LAMBDA task : task.category = filter_category)
                 ELSE tasks
        sorted == Sorted(shown)
    IN  /\ last' =
               IF \E i \in 1..Len(shown) : ParseRaises(shown[i].due_date)
               THEN Call("list_tasks", filter_category, "ValueError", None)
               ELSE IF sorted.raised
               THEN Call("list_tasks", filter_category, "KeyError", None)
               ELSE Call("list_tasks", filter_category, "None", sorted.list)
        /\ UNCHANGED <<tasks, fs, today>>

JNull == "<null>"

\* json.dump of one task.__dict__: every attribute the object has is a member,
\* None is written null
JsonObject(task) ==
    LET Js(v) == IF v = None THEN JNull ELSE v
    IN  IF HasCursor(task)
        THEN [name |-> Js(task.name), completed |-> task.completed,
              priority |-> Js(task.priority), due_date |-> Js(task.due_date),
              category |-> Js(task.category), dependencies |-> task.dependencies,
              _iter_index |-> task._iter_index]
        ELSE [name |-> Js(task.name), completed |-> task.completed,
              priority |-> Js(task.priority), due_date |-> Js(task.due_date),
              category |-> Js(task.category), dependencies |-> task.dependencies]

\* json.dump([task.__dict__ for task in self.tasks], f)
JsonDump(list) == [i \in 1..Len(list) |-> JsonObject(list[i])]

\* TaskManager.save_tasks
save_tasks(filename) ==
    /\ fs' = [path \in DOMAIN fs \cup {filename} |->
                  IF path = filename THEN JsonDump(tasks) ELSE fs[path]]
    /\ last' = Call("save_tasks", filename, "None", None)
    /\ UNCHANGED <<tasks, today>>

\* the parameters of Task.__init__ after self
InitParams == {"name", "priority", "due_date", "category", "dependencies", "completed"}

\* Task(**object) raises TypeError: a member that is no parameter, or no name
FromJsonRaises(object) ==
    ~(DOMAIN object \subseteq InitParams) \/ "name" \notin DOMAIN object

\* Task(**object) for one object of the file: null is read None, a missing
\* member takes the parameter's default
FromJson(object, day) ==
    LET Py(v) == IF v = JNull THEN None ELSE v
        Get(k, default) == IF k \in DOMAIN object THEN object[k] ELSE default
    IN  TaskInit(Py(object.name), Py(Get("priority", "medium")),
                 Py(Get("due_date", JNull)), Py(Get("category", JNull)),
                 Get("dependencies", <<>>), Get("completed", FALSE), day)

\* load_tasks clearing the list when no file has the name
LoadedEmptied(list, files, filename, day) ==
    IF filename \notin DOMAIN files THEN [list |-> <<>>, raised |-> "None"]
    ELSE IF \E i \in 1..Len(files[filename]) : FromJsonRaises(files[filename][i])
    THEN [list |-> list, raised |-> "TypeError"]
    ELSE [list |-> [i \in 1..Len(files[filename]) |->
                       FromJson(files[filename][i], day)],
          raised |-> "None"]

\* TaskManager.load_tasks: the list it leaves and the exception it ends with.
\* open() raises FileNotFoundError, which is caught, when no file has the name
Loaded(list, files, filename, day) ==
    IF filename \notin DOMAIN files THEN [list |-> list, raised |-> "None"]
    ELSE IF \E i \in 1..Len(files[filename]) : FromJsonRaises(files[filename][i])
    THEN [list |-> list, raised |-> "TypeError"]
    ELSE [list |-> [i \in 1..Len(files[filename]) |->
                       FromJson(files[filename][i], day)],
          raised |-> "None"]

\* TaskManager.load_tasks
load_tasks(filename) ==
    LET loaded == Loaded(tasks, fs, filename, today)
    IN  /\ tasks' = loaded.list
        /\ last' = Call("load_tasks", filename, loaded.raised, None)
        /\ UNCHANGED <<fs, today>>

\* iter(task) on the i-th task of the manager: Task.__iter__
task_iter(i) ==
    /\ i \in 1..Len(tasks)
    /\ tasks' = [tasks EXCEPT ![i] = WithCursor(tasks[i], 0)]
    /\ last' = Call("__iter__", tasks[i].name, "None", WithCursor(tasks[i], 0))
    /\ UNCHANGED <<fs, today>>

\* next(task) on the i-th task of the manager: Task.__next__. On a task on
\* which iter(task) has not run the read of self._iter_index raises
\* AttributeError and the task is left as it was
task_next(i) ==
    /\ i \in 1..Len(tasks)
    /\ IF ~HasCursor(tasks[i])
       THEN /\ tasks' = tasks
            /\ last' = Call("__next__", tasks[i].name, "AttributeError", None)
       ELSE IF tasks[i]._iter_index < Len(tasks[i].dependencies)
       THEN /\ tasks' = [tasks EXCEPT
                             ![i] = WithCursor(tasks[i], tasks[i]._iter_index + 1)]
            /\ last' = Call("__next__", tasks[i].name, "None",
                            tasks[i].dependencies[tasks[i]._iter_index + 1])
       ELSE /\ tasks' = tasks
            /\ last' = Call("__next__", tasks[i].name, "StopIteration", None)
    /\ UNCHANGED <<fs, today>>

\* task.mark_completed() on the i-th task of the manager
task_mark_completed(i) ==
    LET done == MarkCompleted(tasks[i])
    IN  /\ i \in 1..Len(tasks)
        /\ tasks' = [tasks EXCEPT ![i] = done.task]
        /\ last' = Call("mark_completed", tasks[i].name, done.raised, done.ret)
        /\ UNCHANGED <<fs, today>>

\* the expression task + other, task the i-th task of the manager: Python raises
\* TypeError when __add__ returns NotImplemented and other knows no __radd__
task_add(i, other) ==
    /\ i \in 1..Len(tasks)
    /\ \E combined \in (IF other.type = "Task"
                        THEN CombinedDependencies(tasks[i], other.value)
                        ELSE {<<>>}) :
           LET sum == TaskAdd(tasks[i], other, combined, today)
           IN  last' = [op |-> "__add__", name |-> tasks[i].name,
                        raised |-> IF other.type = "Task" THEN "None" ELSE "TypeError",
                        ret |-> sum, self |-> tasks[i], other |-> other]
    /\ UNCHANGED <<tasks, fs, today>>

\* TaskManager.get_all_tasks
get_all_tasks(manager_tasks) == manager_tasks

\* the clock reaches the next day
Tick ==
    /\ today < Len(Days)
    /\ today' = today + 1
    /\ last' = Call("tick", "", "None", None)
    /\ UNCHANGED <<tasks, fs>>

Paths == {"tasks.json", "other.json"}

\* TaskManager.__init__, with no file on disk (fs has no path) and no shell running
Init ==
    /\ tasks = <<>>
    /\ fs = <<>>
    /\ today = 1
    /\ pc = "lib"
    /\ last = Call("__init__", "", "None", None)

-----------------------------------------------------------------------------
(* SpecAdd: a manager that only receives add_task calls with priorities of *)
(* PRIORITY_LEVELS and due dates in YYYY-MM-DD form (or none).             *)

AddNames == {"Pay bills", "Clean house"}
AddDates == {None, "2024-01-01", "2024-12-31"}

AddValid ==
    /\ Len(tasks) < MaxTasks
    /\ \E name \in AddNames, priority \in DOMAIN PRIORITY_LEVELS, due_date \in AddDates :
           add_task(name, priority, due_date, None, <<>>)
    /\ UNCHANGED pc

\* the clock moves while the caller is between calls
Midnight == Tick /\ UNCHANGED pc

NextAdd == AddValid \/ Midnight

SpecAdd == Init /\ [][NextAdd]_vars

-----------------------------------------------------------------------------
(* Spec: a manager whose caller adds, removes, completes, searches and     *)
(* sorts tasks, with names that contain one another, a priority outside    *)
(* PRIORITY_LEVELS and blank names among the arguments; no file exists.    *)

Names == {"b", "aB"}
Blanks == {"", " "}
Priorities == {"low", "high", "urgent"}

AddTask ==
    /\ Len(tasks) < MaxTasks
    /\ \E name \in Names, priority \in Priorities :
           add_task(name, priority, None, None, <<>>)
    /\ UNCHANGED pc

RemoveTask == UNCHANGED pc /\ \E name \in Names : remove_task(name)

MarkTaskComplete ==
    UNCHANGED pc /\ \E name \in Names \cup Blanks : mark_task_complete(name)

SearchTasks ==
    UNCHANGED pc /\ \E keyword \in Names \cup {"B"} : search_tasks(keyword)

SortTasks == UNCHANGED pc /\ sort_tasks

MarkCompletedOnTask ==
    UNCHANGED pc /\ \E i \in 1..Len(tasks) : task_mark_completed(i)

LoadMissing == UNCHANGED pc /\ \E filename \in Paths : load_tasks(filename)

Next ==
    \/ AddTask
    \/ RemoveTask
    \/ MarkTaskComplete
    \/ SearchTasks
    \/ SortTasks
    \/ MarkCompletedOnTask
    \/ LoadMissing

Spec == Init /\ [][Next]_vars

-----------------------------------------------------------------------------
(* SpecStore: a manager whose tasks are iterated, saved and loaded.        *)

StoreAdd ==
    /\ Len(tasks) < MaxStored
    /\ \E priority \in {"low", "high"} :
           add_task("a", priority, None, None, <<"x">>)
    /\ UNCHANGED pc

StoreRemove == UNCHANGED pc /\ remove_task("a")

StoreComplete == UNCHANGED pc /\ mark_task_complete("a")

StoreSort == UNCHANGED pc /\ sort_tasks

IterTask == UNCHANGED pc /\ \E i \in 1..Len(tasks) : task_iter(i)

NextOfTask == UNCHANGED pc /\ \E i \in 1..Len(tasks) : task_next(i)

SaveTasks == UNCHANGED pc /\ save_tasks("tasks.json")

LoadTasks == UNCHANGED pc /\ \E filename \in Paths : load_tasks(filename)

NextStore ==
    \/ StoreAdd
    \/ StoreRemove
    \/ StoreComplete
    \/ StoreSort
    \/ IterTask
    \/ NextOfTask
    \/ SaveTasks
    \/ LoadTasks

SpecStore == Init /\ [][NextStore]_vars

-----------------------------------------------------------------------------
(* SpecMerge: tasks of a manager are merged with one another and with      *)
(* values that are no Task.                                                *)

MergeNames == {"A", "B"}
MergeDependencies == {<<>>, <<"x", "y">>, <<"y", "z">>}

\* Python values that are no Task
NonTasks == {[type |-> "int", value |-> 5], [type |-> "str", value |-> "B"]}

MergeAdd ==
    /\ Len(tasks) < MaxOperands
    /\ \E name \in MergeNames, dependencies \in MergeDependencies :
           add_task(name, "high", "2024-01-01", "work", dependencies)
    /\ UNCHANGED pc

MergeComplete == UNCHANGED pc /\ \E name \in MergeNames : mark_task_complete(name)

MergeTasks ==
    /\ UNCHANGED pc
    /\ \E i, j \in 1..Len(tasks) : task_add(i, [type |-> "Task", value |-> tasks[j]])

MergeNonTask ==
    UNCHANGED pc /\ \E i \in 1..Len(tasks), other \in NonTasks : task_add(i, other)

NextMerge == MergeAdd \/ MergeComplete \/ MergeTasks \/ MergeNonTask

SpecMerge == Init /\ [][NextMerge]_vars

-----------------------------------------------------------------------------
(* The shell of src/project.py. pc is "start" before main runs, "menu"     *)
(* while main waits for a choice, "exited" once exit() was called and      *)
(* "crashed" once an exception left main.                                  *)

\* where the shell is after the call recorded in last'
AfterCall(call) == IF call.raised = "None" THEN "menu" ELSE "crashed"

\* main, up to its first prompt: TaskManager() and load_tasks()
main ==
    /\ pc = "start"
    /\ \E loaded \in {Loaded(<<>>, fs, "tasks.json", today)} :
           /\ tasks' = loaded.list
           /\ last' = Call("load_tasks", "tasks.json", loaded.raised, None)
    /\ pc' = AfterCall(last')
    /\ UNCHANGED <<fs, today>>

\* the dependencies add_task of the shell passes on for a line of input
Dependencies(line) ==
    SelectSeq([i \in 1..Len(StrSplit(line, ",")) |-> StrStrip(StrSplit(line, ",")[i])],
              LAMBDA dep : dep # "")

\* add_task of the shell, the five lines of input given
shell_add_task(name, priority, due_date, category, dependencies) ==
    /\ add_task(name, StrLower(priority), IF due_date # "" THEN due_date ELSE None,
                category, Dependencies(dependencies))
    /\ pc' = AfterCall(last')

\* remove_task of the shell
shell_remove_task(name) == remove_task(name) /\ pc' = AfterCall(last')

\* list_tasks of the shell
shell_list_tasks(filter_category) ==
    /\ list_tasks(IF filter_category # "" THEN filter_category ELSE None)
    /\ pc' = AfterCall(last')

\* search_tasks of the shell
shell_search_tasks(keyword) == search_tasks(keyword) /\ pc' = AfterCall(last')

\* save_tasks of the shell
shell_save_tasks == save_tasks("tasks.json") /\ pc' = AfterCall(last')

\* mark_complete of the shell
shell_mark_complete(name) == mark_task_complete(name) /\ pc' = AfterCall(last')

\* exit_program: save_tasks() and exit()
exit_program ==
    /\ save_tasks("tasks.json")
    /\ pc' = IF last'.raised = "None" THEN "exited" ELSE "crashed"

ShellNames == {"a"}
ShellPriorities == {"Low", "HIGH", ""}
ShellDates == {"", "2024-01-01", "soon"}
ShellDependencies == {"x, y"}
Choices == {"1", "2", "3", "4", "5", "6", "7", "8"}

\* handle_choice, with the lines of input its branch reads
handle_choice(choice) ==
    /\ pc = "menu"
    /\ \/ /\ choice = "1"
          /\ Len(tasks) < MaxShell
          /\ \E name \in ShellNames, priority \in ShellPriorities,
                due_date \in ShellDates, dependencies \in ShellDependencies :
                 shell_add_task(name, priority, due_date, "", dependencies)
       \/ /\ choice = "2"
          /\ \E name \in ShellNames : shell_remove_task(name)
       \/ /\ choice = "3"
          /\ shell_list_tasks("")
       \/ /\ choice = "4"
          /\ \E keyword \in ShellNames : shell_search_tasks(keyword)
       \/ /\ choice = "5"
          /\ shell_save_tasks
       \/ /\ choice = "6"
          /\ \E name \in ShellNames : shell_mark_complete(name)
       \/ /\ choice = "7"
          /\ exit_program
       \/ /\ choice \notin {"1", "2", "3", "4", "5", "6", "7"}
          /\ last' = Call("invalid choice", choice, "None", None)
          /\ UNCHANGED <<tasks, fs, today, pc>>

HandleChoice == \E choice \in Choices : handle_choice(choice)

\* the program is run again after it ended: its memory is gone, the files stay
RunAgain ==
    /\ pc \in {"exited", "crashed"}
    /\ pc' = "start"
    /\ tasks' = <<>>
    /\ last' = Call("run", "", "None", None)
    /\ UNCHANGED <<fs, today>>

InitShell ==
    /\ tasks = <<>>
    /\ fs = <<>>
    /\ today = 1
    /\ pc = "start"
    /\ last = Call("run", "", "None", None)

NextShell == main \/ HandleChoice \/ RunAgain

SpecShell == InitShell /\ [][NextShell]_vars

-----------------------------------------------------------------------------
(* The claims.                                                             *)

Rank(task) == PRIORITY_LEVELS[task.priority]

\* Y < X as the ordering is specified: rank first, due date string second
Before(y, x) ==
    \/ Rank(y) < Rank(x)
    \/ Rank(y) = Rank(x) /\ StrLt(y.due_date, x.due_date)

\* C1: from an empty manager, after any sequence of add_task calls with
\* priorities of PRIORITY_LEVELS and YYYY-MM-DD due dates, no task of the stored
\* list is less than the task stored just before it.
C1_AddLeavesSorted ==
    \A i \in 1..(Len(tasks) - 1) : ~Before(tasks[i + 1], tasks[i])

\* a full list that holds two priorities and, within one priority, two dates
C1_Witness ==
    /\ last.op = "add_task"
    /\ Len(tasks) = 3
    /\ tasks[1].priority = tasks[2].priority
    /\ tasks[1].due_date # tasks[2].due_date
    /\ tasks[2].priority # tasks[3].priority

\* C2 as claimed: get_all_tasks returns every high-priority task before every
\* low-priority task, whatever their due dates and the order of the calls.
C2_HighFirst ==
    \A i, j \in 1..Len(get_all_tasks(tasks)) :
        get_all_tasks(tasks)[i].priority = "high"
            /\ get_all_tasks(tasks)[j].priority = "low" => i < j

\* C2 as amended: get_all_tasks returns every low-priority task before every
\* high-priority task, whatever their due dates and the order of the calls.
C2_LowFirst ==
    \A i, j \in 1..Len(get_all_tasks(tasks)) :
        get_all_tasks(tasks)[i].priority = "low"
            /\ get_all_tasks(tasks)[j].priority = "high" => i < j

\* a low-priority task stored ahead of a high-priority task of an earlier date
C2_Witness ==
    /\ last.op = "add_task"
    /\ \E i, j \in 1..Len(tasks) :
           /\ i < j
           /\ tasks[i].priority = "low" /\ tasks[j].priority = "high"
           /\ StrLt(tasks[j].due_date, tasks[i].due_date)

\* the observable fields of a task, the dependencies as a set
Observable(task) ==
    [name |-> task.name, completed |-> task.completed, priority |-> task.priority,
     due_date |-> task.due_date, category |-> task.category,
     dependencies |-> Range(task.dependencies)]

\* C3: save_tasks(path) followed by load_tasks(path) ends without an error and
\* leaves as many tasks, each with the name, completed, priority, due_date,
\* category and dependency set it had before the save.
C3_RoundTrip ==
    [][last.op = "save_tasks" /\ last'.op = "load_tasks" /\ last'.name = last.name
           => /\ last'.raised = "None"
              /\ Len(tasks') = Len(tasks)
              /\ \A i \in 1..Len(tasks) : Observable(tasks'[i]) = Observable(tasks[i])]_vars

\* C4: an add_task call with a priority outside PRIORITY_LEVELS raises, and the
\* stored list after it is the list before it.
C4_InvalidPriorityRejected ==
    [][last'.op = "add_task" /\ last'.priority \notin DOMAIN PRIORITY_LEVELS
           => last'.raised # "None" /\ tasks' = tasks]_vars

\* C5: mark_task_complete with an empty or blank name raises ValueError and
\* changes no task; mark_completed on a task with a name that is not blank sets
\* completed and returns its confirmation.
C5_MarkingValidatesName ==
    [][/\ last'.op = "mark_task_complete" /\ IsBlank(last'.name)
              => last'.raised = "ValueError" /\ tasks' = tasks
       /\ last'.op = "mark_completed" /\ ~IsBlank(last'.name)
              => /\ last'.raised = "None"
                 /\ last'.ret = "Task '" \o last'.name \o "' marked as completed."
                 /\ \E i \in 1..Len(tasks) :
                        /\ tasks[i].name = last'.name
                        /\ tasks' = [tasks EXCEPT ![i] = Completed(tasks[i])]
                        /\ tasks'[i].completed]_vars

\* C6 as claimed: after load_tasks on a path that no file has, nothing was
\* raised and the list is empty.
C6_LoadMissingLeavesEmpty ==
    last.op = "load_tasks" /\ last.name \notin DOMAIN fs
        => last.raised = "None" /\ tasks = <<>>

\* C6 as amended: load_tasks on a path that no file has raises nothing and
\* leaves the list as it was, empty or not.
C6_LoadMissingLeavesUnchanged ==
    [][last'.op = "load_tasks" /\ last'.name \notin DOMAIN fs
           => last'.raised = "None" /\ tasks' = tasks]_vars

\* load_tasks found no file and the manager holds tasks
C6_Witness ==
    last.op = "load_tasks" /\ last.name \notin DOMAIN fs /\ Len(tasks) >= 2

\* task names that contain x, case ignored
Containing(list, x) ==
    {i \in 1..Len(list) : StrIn(StrLower(x), StrLower(list[i].name))}

\* C7: when at most one task's name contains X (case ignored) and that task is
\* named X, remove_task(X) removes that task alone, keeps the others in their
\* order, and search_tasks(X) then finds nothing; when no task is named X,
\* remove_task(X) returns the not-found message and changes nothing; it never
\* raises.
C7_RemoveThenSearch ==
    [][last'.op = "remove_task"
           => LET x == last'.name
              IN  /\ last'.raised = "None"
                  /\ (\A i \in 1..Len(tasks) : tasks[i].name # x)
                         => /\ last'.ret = "Task '" \o x \o "' not found."
                            /\ tasks' = tasks
                  /\ (/\ \E i \in 1..Len(tasks) : tasks[i].name = x
                      /\ Cardinality(Containing(tasks, x)) <= 1
                      /\ \A i \in Containing(tasks, x) : tasks[i].name = x)
                         => /\ last'.ret = "Task '" \o x \o "' removed."
                            /\ Len(tasks') = Len(tasks) - 1
                            /\ \E k \in 1..Len(tasks) :
                                   /\ tasks[k].name = x
                                   /\ \A j \in 1..Len(tasks') :
                                          tasks'[j] = IF j < k THEN tasks[j]
                                                      ELSE tasks[j + 1]
                            /\ SearchResult(tasks', x) = <<>>]_vars

\* the task named aB, whose name alone contained aB, was removed from among others
C7_Witness ==
    /\ last.op = "remove_task"
    /\ last.ret = "Task 'aB' removed."
    /\ Len(tasks) = 2
    /\ SearchResult(tasks, "aB") = <<>>

\* the number of items of list equal to item
Count(list, item) == Cardinality({i \in 1..Len(list) : list[i] = item})

\* C8: sort_tasks() leaves no task of higher rank before a task of lower rank,
\* keeps tasks of equal priority in their order, keeps the same tasks, and
\* leaves a list that is in add's order as it is.
C8_SortByRank ==
    [][last'.op = "sort_tasks"
       /\ (\A i \in 1..Len(tasks) : tasks[i].priority \in DOMAIN PRIORITY_LEVELS)
           => /\ \A i, j \in 1..Len(tasks') : i < j => Rank(tasks'[i]) <= Rank(tasks'[j])
              /\ \A p \in DOMAIN PRIORITY_LEVELS :
                     SelectSeq(tasks', LAMBDA task : task.priority = p)
                         = SelectSeq(tasks, LAMBDA task : task.priority = p)
              /\ Len(tasks') = Len(tasks)
              /\ \A i \in 1..Len(tasks) : Count(tasks', tasks[i]) = Count(tasks, tasks[i])
              /\ (\A i \in 1..(Len(tasks) - 1) : ~Before(tasks[i + 1], tasks[i]))
                     => tasks' = tasks]_vars

\* C9: A + B is a new task named "A & B" whose dependencies are the union of
\* A's and B's, each once, with priority medium, no category and completed
\* false, and A and B stay as they were; A + a value that is no Task gives no
\* task, __add__ returning NotImplemented, and the caller gets a TypeError.
C9_Merge ==
    [][last'.op = "__add__"
           => /\ tasks' = tasks
              /\ \E i \in 1..Len(tasks) : tasks[i] = last'.self
              /\ IF last'.other.type = "Task"
                 THEN /\ last'.raised = "None"
                      /\ last'.ret.name = last'.self.name \o " & " \o last'.other.value.name
                      /\ Range(last'.ret.dependencies)
                             = Range(last'.self.dependencies)
                                   \cup Range(last'.other.value.dependencies)
                      /\ Len(last'.ret.dependencies)
                             = Cardinality(Range(last'.ret.dependencies))
                      /\ last'.ret.priority = "medium"
                      /\ last'.ret.category = None
                      /\ last'.ret.completed = FALSE
                 ELSE /\ last'.raised = "TypeError"
                      /\ last'.ret = NotImplemented]_vars

\* a completed task with dependencies x, y was merged with one with y, z
C9_Witness ==
    /\ last.op = "__add__"
    /\ last.other.type = "Task"
    /\ last.self.name = "A" /\ last.other.value.name = "B"
    /\ last.self.dependencies = <<"x", "y">>
    /\ last.other.value.dependencies = <<"y", "z">>
    /\ last.self.completed
    /\ last.ret.name = "A & B"
    /\ Len(last.ret.dependencies) = 3

\* C10: a run of the shell starts with load_tasks on tasks.json, a menu choice
\* calls the one operation it stands for, and when the program has ended the
\* file tasks.json holds the list as the program last had it.
C10_ShellSavesBeforeEnd ==
    /\ [][pc = "start" => last'.op = "load_tasks" /\ last'.name = "tasks.json"]_vars
    /\ [][pc = "menu"
             => last'.op \in {"add_task", "remove_task", "list_tasks", "search_tasks",
                              "save_tasks", "mark_task_complete", "invalid choice"}]_vars
    /\ [](pc \in {"exited", "crashed"}
             => "tasks.json" \in DOMAIN fs /\ fs["tasks.json"] = JsonDump(tasks))

====
